---- MODULE Spec2Model ----
(***************************************************************************)
(* Roborock washer integration: the tiered polling coordinator             *)
(* (coordinator.py) on top of the Zeo transport wrapper (zeo_protocol.py). *)
(*                                                                         *)
(* Time is counted in seconds.  A protocol (a member of the                *)
(* RoborockZeoProtocol enum) is written as its upper-case member name; a   *)
(* cache key is the lower-case form of that name.  Python values are       *)
(* tagged records: [ty |-> "int", n], [ty |-> "str", s], [ty |-> "bool",   *)
(* b], [ty |-> "dict", d] (d a function), [ty |-> "list", items] and       *)
(* [ty |-> "none"].                                                        *)
(***************************************************************************)
EXTENDS Integers, Sequences, FiniteSets, TLC

\* ------------------------------------------------------------------ bounds

\* Times the clock is advanced over one behaviour.
MaxAdvances == 2
\* On-demand queries (async_query_protocol calls) over one behaviour.
MaxQueries == 1
\* Updates that fail as a whole over one behaviour.
MaxFailures == 1
\* Forms submitted to the config flow over one behaviour.
MaxSubmits == 3
\* Devices the device manager reports to one setup call.
MaxDevices == 3

\* ------------------------------------------------------------- const.py

UPDATE_INTERVAL_FREQUENT == 60
UPDATE_INTERVAL_INFREQUENT == 21600

\* -------------------------------------------------- the protocol catalog

frequent_protocols == <<"STATE", "WASHING_LEFT", "COUNTDOWN">>

infrequent_protocols == <<"ERROR", "TIMES_AFTER_CLEAN", "DETERGENT_EMPTY">>

manual_protocols ==
    <<"START", "PAUSE", "SHUTDOWN", "MODE", "PROGRAM", "TEMP", "RINSE_TIMES",
      "SPIN_LEVEL", "DRYING_MODE", "DETERGENT_TYPE", "SOUND_SET">>

all_protocols == frequent_protocols \o infrequent_protocols \o manual_protocols

\* Variant: SHUTDOWN left out of the skip list.
SetValueOnlyShort == {"START", "PAUSE"}

\* The protocols the initial load skips because they only support set_value.
SetValueOnly == {"START", "PAUSE", "SHUTDOWN"}

\* boolean_protocols of the initial load branch.
InitialBooleanProtocols == {"SOUND_SET"}

\* boolean_protocols of the frequent branch (every member is commented out).
FrequentBooleanProtocols == {}

\* boolean_protocols of async_query_protocol: compared with the name as given.
QueryBooleanNames == {"sound_set"}

Range(s) == {s[i] : i \in 1..Len(s)}

\* str.lower() / str.upper() on the names that occur.
LowerTable ==
    [STATE |-> "state", WASHING_LEFT |-> "washing_left", COUNTDOWN |-> "countdown",
     ERROR |-> "error", TIMES_AFTER_CLEAN |-> "times_after_clean",
     DETERGENT_EMPTY |-> "detergent_empty", START |-> "start", PAUSE |-> "pause",
     SHUTDOWN |-> "shutdown", MODE |-> "mode", PROGRAM |-> "program", TEMP |-> "temp",
     RINSE_TIMES |-> "rinse_times", SPIN_LEVEL |-> "spin_level",
     DRYING_MODE |-> "drying_mode", DETERGENT_TYPE |-> "detergent_type",
     SOUND_SET |-> "sound_set", CHILD_LOCK |-> "child_lock", BOGUS |-> "bogus"]

\* The mixed-case names that occur, with their upper-case form.
MixedTable == [State |-> "STATE", Sound_Set |-> "SOUND_SET"]

Lower(s) ==
    IF s \in DOMAIN MixedTable THEN LowerTable[MixedTable[s]]
    ELSE IF s \in DOMAIN LowerTable THEN LowerTable[s] ELSE s

Upper(s) ==
    IF s \in DOMAIN MixedTable THEN MixedTable[s]
    ELSE IF \E u \in DOMAIN LowerTable : LowerTable[u] = s
    THEN CHOOSE u \in DOMAIN LowerTable : LowerTable[u] = s
    ELSE s

\* protocol.name.lower(): the cache key of a protocol.
ProtocolStr(protocol) == Lower(protocol)

\* ------------------------------------------------------------ Python values

IntV(k) == [ty |-> "int", n |-> k]
StrV(t) == [ty |-> "str", s |-> t]
BoolV(t) == [ty |-> "bool", b |-> t]
NoneV == [ty |-> "none"]
EmptyDict == [ty |-> "dict", d |-> <<>>]
DictV(k, v) == [ty |-> "dict", d |-> (k :> v)]
ListV(seq) == [ty |-> "list", items |-> seq]

\* int(s) for a str: the strings that denote an integer.
IntOfStr == [s \in {"0", "1", "2"} |-> CASE s = "0" -> 0 [] s = "1" -> 1 [] s = "2" -> 2]

\* bool(x) for a value that is not a str.
Truthy(v) ==
    CASE v.ty = "int" -> v.n # 0
      [] v.ty = "bool" -> v.b
      [] v.ty = "dict" -> DOMAIN v.d # {}
      [] v.ty = "list" -> Len(v.items) > 0
      [] v.ty = "str" -> v.s # ""
      [] OTHER -> FALSE

\* Variant: bool(x) for every value, a str included.
BoolCoerceTruthy(v) == [raises |-> FALSE, val |-> BoolV(Truthy(v))]

\* bool(int(x)) if isinstance(x, str) else bool(x); int() raises ValueError
\* on a string that denotes no integer.
BoolCoerce(v) ==
    IF v.ty = "str"
    THEN IF v.s \in DOMAIN IntOfStr
         THEN [raises |-> FALSE, val |-> BoolV(IntOfStr[v.s] # 0)]
         ELSE [raises |-> TRUE, val |-> v]
    ELSE [raises |-> FALSE, val |-> BoolV(Truthy(v))]

\* Variant: only a mapping keyed by the protocol is unwrapped.
ProcessResultKeyed(result, protocol) ==
    IF result.ty = "dict" /\ protocol \in DOMAIN result.d THEN result.d[protocol]
    ELSE result

\* The unwrapping of a raw query result for one protocol.
ProcessResult(result, protocol) ==
    IF result.ty = "dict" /\ protocol \in DOMAIN result.d THEN result.d[protocol]
    ELSE IF result.ty = "list" /\ Len(result.items) = 1 THEN result.items[1]
    ELSE result

\* dict.update
DictUpdate(d, e) ==
    [k \in DOMAIN d \cup DOMAIN e |-> IF k \in DOMAIN e THEN e[k] ELSE d[k]]

\* d[k] = v
DictSet(d, k, v) == DictUpdate(d, k :> v)

\* dict.get(k): None when absent.
DictGet(d, k) == IF k \in DOMAIN d THEN d[k] ELSE NoneV

\* --------------------------------------------------------- the environment

\* What the device answers to a query: the shape of the answer and the value
\* in it.  The device's state changes as time passes: after the n-th advance
\* of the clock it answers with Readings[(n % Len(Readings)) + 1].
Readings ==
    << [shape |-> "keyed", val |-> IntV(1)],
       [shape |-> "list1", val |-> StrV("0")],
       [shape |-> "scalar", val |-> StrV("abc")] >>

ReadingAt(n) == Readings[(n % Len(Readings)) + 1]

\* The protocols whose query the environment lets fail at the transport.
Flaky == {"STATE", "ERROR", "SOUND_SET"}

\* device.zeo.query_values([protocol]) when it does not raise.
DeviceAnswer(reading, protocol) ==
    CASE reading.shape = "keyed" -> DictV(protocol, reading.val)
      [] reading.shape = "list1" -> ListV(<<reading.val>>)
      [] reading.shape = "list2" -> ListV(<<reading.val, reading.val>>)
      [] reading.shape = "empty" -> EmptyDict
      [] OTHER -> reading.val

\* The raw values that stand for true and for false.
TrueRaws == {StrV("1"), IntV(1), BoolV(TRUE)}
FalseRaws == {StrV("0"), IntV(0), BoolV(FALSE)}

\* Answers in every shape the transport may use: each of the six values as a
\* scalar, a one-element collection, a mapping keyed by the protocol, an
\* empty mapping and a longer collection.
ShapeReadings ==
    {[shape |-> "scalar", val |-> v] : v \in TrueRaws \cup FalseRaws}
        \cup {[shape |-> "list1", val |-> StrV("1")], [shape |-> "keyed", val |-> IntV(0)],
               [shape |-> "empty", val |-> NoneV], [shape |-> "list2", val |-> IntV(1)]}

\* Names passed to async_query_protocol while the shapes vary.
ShapeNames == {"state", "sound_set"}

\* The same, with names in other letter cases.
ShapeCaseNames == {"sound_set", "Sound_Set"}

\* Seconds by which the clock advances between operations.
Deltas == {30, 21570}

\* Names callers pass to async_query_protocol.
QueryNames == {"state", "sound_set", "bogus"}

\* Names in other letter cases passed to async_query_protocol, and the names
\* passed to get_cached_value.
AnyCaseNames == {"state", "STATE", "Sound_Set"}
ReadNames == {"state", "STATE", "bogus"}

\* Names of members of the library enum passed to async_query_protocol: a
\* polled key, a write-only key and a member outside the three lists.
MemberNames == {"state", "start", "child_lock"}

\* Names passed to async_query_protocol again and again between the ticks.
LiveNames == {"state"}

\* Names passed to get_cached_value while an update runs.
DuringNames == {"state", "error"}

\* The options users select, and the protocols of the buttons.
SampleOptions == {"dry", "quick", "low", "20C", "high", "max", "iron"}
ButtonProtocols == {"START", "PAUSE", "SHUTDOWN"}

\* Names and the value callers pass to async_send_command.
CommandNames == {"MODE", "mode"}
CommandValue == IntV(1)

\* Further names passed to async_send_command: a catalog key in lower case
\* and an enum member outside the three lists.
AnyCommandNames == {"MODE", "mode", "CHILD_LOCK"}

\* The protocols of the entities that set values, and the values they set.
EntityProtocols == {"SOUND_SET", "MODE", "BOGUS"}
SetValues == {BoolV(TRUE), BoolV(FALSE), StrV("2"), StrV("abc"), IntV(1)}

\* The positions at which the refresh after a command may fail as a whole.
RefreshCuts == {1}

\* The addresses a user types, the codes, and how the calls of the client end.
Usernames == {"a@example.org", "b@example.org"}
EntryCodes == {"123456"}
RequestOutcomes ==
    {"ok", "RoborockAccountDoesNotExist", "RoborockUrlException", "RoborockInvalidEmail",
     "RoborockTooFrequentCodeRequests", "RoborockException", "RoborockInvalidCode",
     "ValueError"}
LoginOutcomes ==
    {"ok", "RoborockInvalidCode", "RoborockException", "RoborockUrlException",
     "ValueError"}

\* The devices a device manager can report, and how its calls end.
Duids == {"d1", "d2"}
Devices == [duid : Duids, zeo : {"absent", "None", "zeo"}]
RECURSIVE SeqsUpTo(_, _)
SeqsUpTo(S, n) ==
    IF n = 0 THEN {<<>>}
    ELSE LET shorter == SeqsUpTo(S, n - 1)
         IN  shorter \cup {Append(q, x) : q \in shorter, x \in S}
SetupOutcomes == {"ok", "RoborockInvalidCredentials", "RoborockException", "ValueError"}

\* The members of the RoborockZeoProtocol enum that getattr finds: the
\* protocols of the three lists and the members the lists leave commented
\* out as not supported by the device.
RoborockZeoProtocol ==
    Range(all_protocols) \cup {"DOORLOCK_STATE", "CUSTOM_PARAM_GET", "SOFTENER_EMPTY",
                                "CHILD_LOCK", "DETERGENT_SET", "SOFTENER_SET",
                                "SOFTENER_TYPE", "CUSTOM_PARAM_SAVE", "DEFAULT_SETTING",
                                "LIGHT_SETTING"}

\* ------------------------------------------------------------------- state

VARIABLES
    state_cache,            \* _state_cache: cache key -> value
    last_update_times,      \* _last_update_times: cache key -> time
    initial_load_complete,  \* _initial_load_complete
    initial_load_started,   \* _initial_load_started
    data,                   \* coordinator.data: what the last update returned
    last_update_success,    \* the base coordinator's flag
    clock,                  \* datetime.now()
    advances,               \* times the clock was advanced
    queries,                \* on-demand queries made
    failures,               \* updates that failed as a whole
    last,                   \* the most recent operation: its inputs and its trace
    flow,                   \* the ConfigFlow instance and what it has returned
    hass                    \* hass.data[DOMAIN] and what the last setup call did

vars == <<state_cache, last_update_times, initial_load_complete, initial_load_started,
          data, last_update_success, clock, advances, queries, failures, last, flow,
          hass>>

\* The trace an operation leaves in `last`.
Trace(op, arg, failing, queried, results, raised, notified, sent) ==
    [op |-> op, arg |-> arg, failing |-> failing, queried |-> queried,
     results |-> results, raised |-> raised, notified |-> notified, sent |-> sent,
     reading |-> NoneV, returned |-> NoneV,
     value |-> IF sent # <<>> THEN sent[1].given ELSE NoneV, failed |-> FALSE,
     pos |-> 0, pending |-> <<>>, asked |-> {}, followup |-> <<>>, error |-> "",
     now |-> 0, newer |-> {}]

\* ----------------------------------------------------- zeo_protocol.py

\* ZeoProtocol.query_values([protocol]): an exception of the device call is
\* caught and {} is returned in its place.
query_values(protocol, failing, reading) ==
    IF protocol \in failing THEN EmptyDict ELSE DeviceAnswer(reading, protocol)

\* ZeoProtocol.set_value(protocol, value): the same, for a write.
set_value(protocol, value, wfail) ==
    IF wfail THEN [raises |-> FALSE, wrote |-> FALSE, result |-> EmptyDict]
    ELSE [raises |-> FALSE, wrote |-> TRUE, result |-> DictV(protocol, value)]

\* ------------------------------------------------ entity.py

integer_protocols == {"sound_set", "start", "pause", "shutdown"}

\* Variant: the value is sent as it was given.
IntCoerceNone(value) == [raises |-> FALSE, val |-> value]

\* The conversion of a value for a protocol of integer_protocols: 1 or 0 for
\* a bool, int(value) for a str, which raises ValueError on a string that
\* denotes no integer.
IntCoerce(value) ==
    IF value.ty = "bool" THEN [raises |-> FALSE, val |-> IntV(IF value.b THEN 1 ELSE 0)]
    ELSE IF value.ty = "str"
    THEN IF value.s \in DOMAIN IntOfStr
         THEN [raises |-> FALSE, val |-> IntV(IntOfStr[value.s])]
         ELSE [raises |-> TRUE, val |-> value]
    ELSE [raises |-> FALSE, val |-> value]

\* ------------------------------------------------ select.py

\* SELECT_TYPES: the key of each select entity and its data_protocol.
SelectProtocol ==
    [mode |-> "MODE", program |-> "PROGRAM", detergent_type |-> "DETERGENT_TYPE",
     temperature |-> "TEMP", spin_level |-> "SPIN_LEVEL", rinse_times |-> "RINSE_TIMES",
     drying_mode |-> "DRYING_MODE"]

SelectKeys == DOMAIN SelectProtocol

\* The branches of async_select_option: the keys it handles, each with the
\* enum that turns the option into a value.
SelectEnum ==
    [mode |-> "ZeoMode", program |-> "ZeoProgram", temperature |-> "ZeoTemperature",
     spin_level |-> "ZeoSpin", rinse_times |-> "ZeoRinse", drying_mode |-> "ZeoDryingMode"]

\* The member a branch falls back to when the option is no member.
SelectDefault ==
    [mode |-> "wash", program |-> "standard", detergent_type |-> "empty",
     temperature |-> "normal", spin_level |-> "mid", rinse_times |-> "mid",
     drying_mode |-> "none"]

\* The options maps (member name -> option shown), the longer ones cut to
\* their first entries; "20C" stands for the option of twenty_c.
OptionsMap ==
    [mode |-> [wash |-> "wash", wash_and_dry |-> "wash_and_dry", dry |-> "dry"],
     program |-> [standard |-> "standard", quick |-> "quick"],
     detergent_type |-> [empty |-> "empty", low |-> "low"],
     temperature |-> [normal |-> "normal", twenty_c |-> "20C"],
     spin_level |-> [none |-> "none", mid |-> "mid", high |-> "high"],
     rinse_times |-> [none |-> "none", mid |-> "mid", max |-> "max"],
     drying_mode |-> [none |-> "none", quick |-> "quick", iron |-> "iron"]]

\* _attr_options: the options a select entity offers.
Offered(key) == {OptionsMap[key][m] : m \in DOMAIN OptionsMap[key]}

\* The value of a member of one of the library's enums.
EnumV(e, m) == [ty |-> "enum", enum |-> e, member |-> m]

\* The value async_select_option sets for an option: that of the member of
\* this name, or of the default member when the enum has no such member (the
\* members being those the options map names).
SelectValue(enums, key, option) ==
    IF option \in DOMAIN OptionsMap[key] THEN EnumV(enums[key], option)
    ELSE EnumV(enums[key], SelectDefault[key])

\* The value the device reports, and the cache holds, once it has the value
\* of an enum member: the member's name as a string (the keys of the options
\* maps are these names).
Reported(v) == StrV(v.member)

\* current_option of the select entity `key` when get_state() returns value:
\* None ("" here) for no value or "not set", the option the options map
\* gives for the value or for str(value), None when it gives none.
current_option(key, value) ==
    IF value.ty = "none" \/ value = StrV("not set") THEN ""
    ELSE IF value.ty = "str" /\ value.s \in DOMAIN OptionsMap[key]
    THEN OptionsMap[key][value.s]
    ELSE ""

\* ------------------------------------------------ config_flow.py

\* The classes of roborock.exceptions the flow names, a built-in one, and the
\* base class of each.
ExceptionBase ==
    [RoborockAccountDoesNotExist |-> "RoborockException",
     RoborockUrlException |-> "RoborockException",
     RoborockInvalidCode |-> "RoborockException",
     RoborockInvalidEmail |-> "RoborockException",
     RoborockTooFrequentCodeRequests |-> "RoborockException",
     RoborockInvalidCredentials |-> "RoborockException",
     RoborockException |-> "Exception",
     ValueError |-> "Exception"]

\* isinstance(exc, cls) for an exception of class exc.
RECURSIVE IsInstance(_, _)
IsInstance(exc, cls) ==
    \/ exc = cls
    \/ (exc \in DOMAIN ExceptionBase /\ IsInstance(ExceptionBase[exc], cls))

\* The except clauses of _request_code, in their order, each with the error
\* code it stores in errors["base"].
RequestCodeHandlers ==
    << [cls |-> "RoborockAccountDoesNotExist", code |-> "invalid_email"],
       [cls |-> "RoborockUrlException", code |-> "unknown_url"],
       [cls |-> "RoborockInvalidEmail", code |-> "invalid_email_format"],
       [cls |-> "RoborockTooFrequentCodeRequests", code |-> "too_frequent_code_requests"],
       [cls |-> "RoborockException", code |-> "unknown_roborock"],
       [cls |-> "Exception", code |-> "unknown"] >>

\* The except clauses around code_login in async_step_code.
CodeLoginHandlers ==
    << [cls |-> "RoborockInvalidCode", code |-> "invalid_code"],
       [cls |-> "RoborockException", code |-> "unknown_roborock"],
       [cls |-> "Exception", code |-> "unknown"] >>

\* The code of the first except clause that matches an exception.
Handled(handlers, exc) ==
    LET i == CHOOSE k \in 1..Len(handlers) :
                 /\ IsInstance(exc, handlers[k].cls)
                 /\ \A j \in 1..(k - 1) : ~IsInstance(exc, handlers[j].cls)
    IN  handlers[i].code

\* Variant: only the named failures of the code request are reported, any
\* other exception leaves errors empty.
request_code_named_only(outcome) ==
    IF outcome = "ok" \/ outcome \in {"RoborockException", "ValueError"} THEN ""
    ELSE Handled(RequestCodeHandlers, outcome)

\* _request_code: errors["base"] after client.request_code() ended as
\* `outcome` ("ok" or the class of the exception raised); "" is the empty
\* errors dictionary.
request_code_errors(outcome) ==
    IF outcome = "ok" THEN "" ELSE Handled(RequestCodeHandlers, outcome)

\* The flow after ConfigFlow.__init__: no username, no client ("" is None),
\* nothing returned, no entry; calls is the history of the client's calls.
FlowInit ==
    [username |-> "", client |-> "", result |-> "", step_id |-> "", errors |-> "",
     entries |-> {}, calls |-> <<>>]

\* async_show_form(step_id=..., errors=...).
async_show_form(f, step_id, errors) ==
    [f EXCEPT !.result = "form", !.step_id = step_id, !.errors = errors]

\* A call of the client, recorded with its argument and how it ended.
Called(f, call, arg, outcome) ==
    [f EXCEPT !.calls = Append(@, [call |-> call, client |-> f.client, arg |-> arg,
                                   outcome |-> outcome])]

\* _create_entry: async_create_entry with the username as title and the
\* username and the user data as data; the flow is finished.
create_entry(f, user_data) ==
    [f EXCEPT !.result = "create_entry", !.step_id = "", !.errors = "",
              !.entries = @ \cup {[title |-> f.username, username |-> f.username,
                                   user_data |-> user_data]}]

\* async_step_code(user_input): without input the code form is shown; with a
\* code, code_login is called, a failure shows the code form again with the
\* handler's error code, a success creates the entry.
async_step_code(f, code, outcome) ==
    IF code = "" THEN async_show_form(f, "code", "")
    ELSE LET f1 == Called(f, "code_login", code, outcome)
         IN  IF outcome = "ok"
             THEN create_entry(f1, [email |-> f1.client, code |-> code])
             ELSE async_show_form(f1, "code", Handled(CodeLoginHandlers, outcome))

\* async_step_user(user_input): without input the user form is shown; with a
\* username a new client is made and a code requested; without errors the
\* code step follows, otherwise the user form is shown again.
async_step_user(f, username, outcome) ==
    IF username = "" THEN async_show_form(f, "user", "")
    ELSE LET f0 == [f EXCEPT !.username = username, !.client = username]
             f1 == Called(f0, "request_code", username, outcome)
             errors == request_code_errors(outcome)
         IN  IF errors = "" THEN async_step_code(f1, "", "ok")
             ELSE async_show_form(f1, "user", errors)

\* ------------------------------------------------ __init__.py

\* hasattr(device, 'zeo') and device.zeo is not None; a device's zeo is
\* "absent" (no attribute), "None" or "zeo".
HasZeo(device) == device.zeo = "zeo"

RECURSIVE FilterWashers(_, _, _, _)

\* Variant: every device with zeo is kept, a duid seen before included.
FilterKeepAll(devices, i, washer_devices, device_duids) ==
    SelectSeq(devices, HasZeo)

\* The filter loop of async_setup_entry from position i of the device list:
\* a device with zeo whose duid was not seen is appended, a duid seen is
\* skipped; the devices are named by their position in the list.
FilterWashers(devices, i, washer_devices, device_duids) ==
    IF i > Len(devices) THEN washer_devices
    ELSE IF HasZeo(devices[i]) /\ devices[i].duid \notin device_duids
         THEN FilterWashers(devices, i + 1, Append(washer_devices, devices[i]),
                            device_duids \cup {devices[i].duid})
         ELSE FilterWashers(devices, i + 1, washer_devices, device_duids)

\* The coordinator loop: one ZeoProtocol and one coordinator constructed per
\* washer device, in the order of the list.
Constructed(washer_devices) ==
    [k \in 1..Len(washer_devices) |-> [device |-> washer_devices[k]]]

\* coordinators[device.duid] = coordinator, a later assignment replacing an
\* earlier one under the same duid.
CoordinatorsByDuid(constructed) ==
    [d \in {constructed[k].device.duid : k \in 1..Len(constructed)} |->
        LET k == CHOOSE k \in 1..Len(constructed) :
                     /\ constructed[k].device.duid = d
                     /\ \A j \in (k + 1)..Len(constructed) :
                            constructed[j].device.duid # d
        IN  constructed[k]]

\* The exception async_setup_entry raises for an exception of class exc.
SetupHandlers ==
    << [cls |-> "RoborockInvalidCredentials", code |-> "ConfigEntryAuthFailed"],
       [cls |-> "RoborockException", code |-> "ConfigEntryNotReady"],
       [cls |-> "Exception", code |-> "ConfigEntryNotReady"] >>

\* Home Assistant before the entry is set up: hass.data[DOMAIN] holds no
\* entry; `discovered` and `constructed` record the last setup call.
HassInit ==
    [data |-> {}, result |-> "", discovered |-> <<>>, constructed |-> <<>>]

\* async_setup_entry: with the device manager ending as `outcome` and
\* reporting `devices`.
async_setup_entry(h, entry_id, outcome, devices) ==
    IF outcome # "ok"
    THEN [h EXCEPT !.result = Handled(SetupHandlers, outcome), !.discovered = <<>>,
                   !.constructed = <<>>]
    ELSE LET washer_devices == FilterWashers(devices, 1, <<>>, {})
             constructed == Constructed(washer_devices)
         IN  [data |-> h.data \cup {[entry_id |-> entry_id, devices |-> washer_devices,
                                     coordinators |-> CoordinatorsByDuid(constructed)]},
              result |-> "True", discovered |-> devices, constructed |-> constructed]

\* async_unload_entry: the entry's data is popped when the platforms unload.
async_unload_entry(h, entry_id, unload_ok) ==
    IF unload_ok
    THEN [h EXCEPT !.data = {e \in @ : e.entry_id # entry_id}, !.result = "unloaded"]
    ELSE [h EXCEPT !.result = "not unloaded"]

\* ------------------------------------------------ _async_update_data

\* The body of the per-protocol try block: query, unwrap, coerce, record.
\* acc = [all_results, times, queried]; an exception inside the block is
\* caught by its own handler and the loop continues with the next protocol.
QueryOne(acc, protocol, booleans, failing, reading, now) ==
    LET result == query_values(protocol, failing, reading)
        pr == ProcessResult(result, protocol)
        conv == IF protocol \in booleans /\ pr.ty # "none"
                THEN BoolCoerce(pr)
                ELSE [raises |-> FALSE, val |-> pr]
        q == Append(acc.queried, protocol)
    IN  IF conv.raises
        THEN [acc EXCEPT !.queried = q]
        ELSE [all_results |-> DictSet(acc.all_results, ProtocolStr(protocol), conv.val),
              times |-> DictSet(acc.times, ProtocolStr(protocol), now),
              queried |-> q]

\* Variant: a strict comparison with the interval.
IsDueStrict(times, key, now, interval) ==
    key \notin DOMAIN times \/ (now - times[key]) > interval

\* not last_update or (current_time - last_update) >= interval
IsDue(times, key, now, interval) ==
    key \notin DOMAIN times \/ (now - times[key]) >= interval

\* The initial load loop over all_protocols, positions i..stop (the whole
\* loop when stop = Len(all_protocols)).
RECURSIVE InitialLoadFrom(_, _, _, _, _, _)
InitialLoadFrom(i, stop, acc, failing, reading, now) ==
    IF i > stop \/ i > Len(all_protocols) THEN acc
    ELSE LET protocol == all_protocols[i]
         IN  InitialLoadFrom(i + 1, stop,
                 IF protocol \in SetValueOnly THEN acc
                 ELSE QueryOne(acc, protocol, InitialBooleanProtocols, failing, reading, now),
                 failing, reading, now)

\* Variant: the tier's loop ends at the first protocol whose query comes
\* back empty.
RECURSIVE TierFromBreak(_, _, _, _, _, _, _, _, _)
TierFromBreak(i, stop, protocols, interval, booleans, acc, failing, reading, now) ==
    IF i > stop \/ i > Len(protocols) THEN acc
    ELSE LET protocol == protocols[i]
             due == IsDue(acc.times, ProtocolStr(protocol), now, interval)
         IN  IF due /\ query_values(protocol, failing, reading) = EmptyDict
             THEN [acc EXCEPT !.queried = Append(acc.queried, protocol)]
             ELSE TierFromBreak(i + 1, stop, protocols, interval, booleans,
                      IF due
                      THEN QueryOne(acc, protocol, booleans, failing, reading, now)
                      ELSE acc,
                      failing, reading, now)

\* One tier's loop of a normal update, positions i..stop.
RECURSIVE TierFrom(_, _, _, _, _, _, _, _, _)
TierFrom(i, stop, protocols, interval, booleans, acc, failing, reading, now) ==
    IF i > stop \/ i > Len(protocols) THEN acc
    ELSE LET protocol == protocols[i]
         IN  TierFrom(i + 1, stop, protocols, interval, booleans,
                 IF IsDue(acc.times, ProtocolStr(protocol), now, interval)
                 THEN QueryOne(acc, protocol, booleans, failing, reading, now)
                 ELSE acc,
                 failing, reading, now)

\* Variant: the normal update also walks the manual protocols.
NormalUpdateManual(stop, acc, failing, reading, now) ==
    TierFrom(1, Len(manual_protocols), manual_protocols, UPDATE_INTERVAL_INFREQUENT, {},
        TierFrom(1, stop - Len(frequent_protocols), infrequent_protocols,
            UPDATE_INTERVAL_INFREQUENT, {},
            TierFrom(1, stop, frequent_protocols, UPDATE_INTERVAL_FREQUENT,
                     FrequentBooleanProtocols, acc, failing, reading, now),
            failing, reading, now),
        failing, reading, now)

\* The normal update: the frequent protocols, then the infrequent ones; the
\* manual protocols are skipped.  stop counts the positions of both loops.
NormalUpdate(stop, acc, failing, reading, now) ==
    TierFrom(1, stop - Len(frequent_protocols), infrequent_protocols,
        UPDATE_INTERVAL_INFREQUENT, {},
        TierFrom(1, stop, frequent_protocols, UPDATE_INTERVAL_FREQUENT,
                 FrequentBooleanProtocols, acc, failing, reading, now),
        failing, reading, now)

\* The loop positions of the update that would run now.
Positions ==
    IF ~initial_load_complete THEN Len(all_protocols)
    ELSE Len(frequent_protocols) + Len(infrequent_protocols)

\* Variant: the normal update ends after the frequent protocols.
RunLoopsFrequentOnly(stop, failing, reading) ==
    LET acc0 == [all_results |-> <<>>, times |-> last_update_times, queried |-> <<>>]
    IN  IF ~initial_load_complete
        THEN InitialLoadFrom(1, stop, acc0, failing, reading, clock)
        ELSE TierFrom(1, stop, frequent_protocols, UPDATE_INTERVAL_FREQUENT,
                      FrequentBooleanProtocols, acc0, failing, reading, clock)

\* The loops of one update, from the state the update starts in, up to
\* position stop.
RunLoops(stop, failing, reading) ==
    LET acc0 == [all_results |-> <<>>, times |-> last_update_times, queried |-> <<>>]
    IN  IF ~initial_load_complete
        THEN InitialLoadFrom(1, stop, acc0, failing, reading, clock)
        ELSE NormalUpdate(stop, acc0, failing, reading, clock)

\* Variant: the cache is replaced by the results of the update.
ReplaceCache(cache, all_results) == all_results

\* if all_results: self._state_cache.update(all_results)
UpdateCache(cache, all_results) ==
    IF DOMAIN all_results # {} THEN DictUpdate(cache, all_results) ELSE cache

\* Variant: the results are returned as they are.
ReturnResultsOnly(all_results, cache) == all_results

\* return all_results or self._state_cache
ReturnValue(all_results, cache) ==
    IF DOMAIN all_results # {} THEN all_results ELSE cache

\* Variant: the flag follows whether the update produced results.
LoadCompleteIfResults(complete, acc) == DOMAIN acc.all_results # {}

\* _initial_load_complete after the update: the initial-load branch sets it
\* after its loop, the normal branch does not assign it.
LoadCompleteAfter(complete, acc) == IF ~complete THEN TRUE ELSE complete

\* The base coordinator sets last_update_success from whether
\* _async_update_data raised; both of its exits return.
UpdateSucceeded(raised) == ~raised

\* The protocols an update started now would query.
WouldQuery(stop) == Range(RunLoops(stop, {}, Readings[1]).queried)

\* The sets of protocols whose query may fail in an update started now.
FaultSets(stop) == SUBSET (Flaky \cap WouldQuery(stop))

\* The cache while the loops of an update run: the results gathered so far
\* are in the local all_results only.
CacheDuring(cache, all_results) == cache

\* The loops of one update at position pos alone, continued from acc, for
\* an update whose current_time is now.
StepLoopsAt(pos, acc, failing, reading, now) ==
    IF ~initial_load_complete
    THEN InitialLoadFrom(pos, pos, acc, failing, reading, now)
    ELSE IF pos <= Len(frequent_protocols)
    THEN TierFrom(pos, pos, frequent_protocols, UPDATE_INTERVAL_FREQUENT,
                  FrequentBooleanProtocols, acc, failing, reading, now)
    ELSE TierFrom(pos - Len(frequent_protocols), pos - Len(frequent_protocols),
                  infrequent_protocols, UPDATE_INTERVAL_INFREQUENT, {}, acc,
                  failing, reading, now)

\* Variant: the normal update walks the infrequent protocols first.
StepLoopsInfrequentFirst(pos, acc, failing, reading) ==
    IF ~initial_load_complete
    THEN InitialLoadFrom(pos, pos, acc, failing, reading, clock)
    ELSE IF pos <= Len(infrequent_protocols)
    THEN TierFrom(pos, pos, infrequent_protocols, UPDATE_INTERVAL_INFREQUENT, {}, acc,
                  failing, reading, clock)
    ELSE TierFrom(pos - Len(infrequent_protocols), pos - Len(infrequent_protocols),
                  frequent_protocols, UPDATE_INTERVAL_FREQUENT,
                  FrequentBooleanProtocols, acc, failing, reading, clock)

\* The same for an update that takes no time: current_time is the clock.
StepLoops(pos, acc, failing, reading) ==
    StepLoopsAt(pos, acc, failing, reading, clock)

\* What _async_update_data does after its loops, with the accumulator acc
\* the loops have produced.
FinishUpdate(op, arg, sent, failing, reading, acc) ==
    LET cache == UpdateCache(state_cache, acc.all_results)
    IN  /\ state_cache' = cache
        /\ last_update_times' = acc.times
        /\ initial_load_started' = TRUE
        /\ initial_load_complete' = LoadCompleteAfter(initial_load_complete, acc)
        /\ data' = ReturnValue(acc.all_results, cache)
        /\ last_update_success' = UpdateSucceeded(FALSE)
        /\ last' = [Trace(op, arg, failing, acc.queried, DOMAIN acc.all_results,
                           FALSE, TRUE, sent) EXCEPT !.reading = reading]

\* One run of _async_update_data under the base coordinator's refresh.
UpdateData(op, arg, sent, failing, reading) ==
    FinishUpdate(op, arg, sent, failing, reading, RunLoops(Positions, failing, reading))

\* ------------------------------------------------ async_query_protocol

\* Variant: every name resolves.
GetProtocolAny(name) == name

\* getattr(RoborockZeoProtocol, name, None)
GetProtocol(name) == IF name \in RoborockZeoProtocol THEN name ELSE "None"

\* Variant: a name refreshed less than a frequent interval ago is answered
\* from the cache, without a device query.
QueryProtocolResultDue(protocol_name, failing, reading) ==
    LET protocol_enum == GetProtocol(Upper(protocol_name))
        unchanged == [raised |-> TRUE, queried |-> <<>>, results |-> {},
                      cache |-> state_cache,
                      times |-> last_update_times, data |-> data, notified |-> FALSE]
    IN  IF protocol_enum = "None" THEN unchanged
        ELSE IF ~IsDue(last_update_times, protocol_name, clock, UPDATE_INTERVAL_FREQUENT)
        THEN [unchanged EXCEPT !.raised = FALSE]
        ELSE LET result == query_values(protocol_enum, failing, reading)
                 pr == ProcessResult(result, protocol_enum)
                 conv == IF protocol_name \in QueryBooleanNames /\ pr.ty # "none"
                         THEN BoolCoerce(pr)
                         ELSE [raises |-> FALSE, val |-> pr]
             IN  IF conv.raises
                 THEN [unchanged EXCEPT !.queried = <<protocol_enum>>]
                 ELSE [raised |-> FALSE, queried |-> <<protocol_enum>>,
                       results |-> {protocol_name},
                       cache |-> DictSet(state_cache, protocol_name, conv.val),
                       times |-> DictSet(last_update_times, protocol_name, clock),
                       data |-> DictSet(data, protocol_name, conv.val),
                       notified |-> TRUE]

\* What async_query_protocol(protocol_name) does: whether it raises, what it
\* queried, and the cache, the timestamps and the data it leaves.
QueryProtocolResult(protocol_name, failing, reading) ==
    LET protocol_enum == GetProtocol(Upper(protocol_name))
        unchanged == [raised |-> TRUE, queried |-> <<>>, results |-> {},
                      cache |-> state_cache,
                      times |-> last_update_times, data |-> data, notified |-> FALSE]
    IN  IF protocol_enum = "None" THEN unchanged
        ELSE LET result == query_values(protocol_enum, failing, reading)
                 pr == ProcessResult(result, protocol_enum)
                 conv == IF protocol_name \in QueryBooleanNames /\ pr.ty # "none"
                         THEN BoolCoerce(pr)
                         ELSE [raises |-> FALSE, val |-> pr]
             IN  IF conv.raises
                 THEN [unchanged EXCEPT !.queried = <<protocol_enum>>]
                 ELSE [raised |-> FALSE, queried |-> <<protocol_enum>>,
                       results |-> {protocol_name},
                       cache |-> DictSet(state_cache, protocol_name, conv.val),
                       times |-> DictSet(last_update_times, protocol_name, clock),
                       data |-> DictSet(data, protocol_name, conv.val),
                       notified |-> TRUE]

\* ------------------------------------------------ get_cached_value

\* Variant: the name is looked up as given.
get_cached_value_exact(protocol) == DictGet(state_cache, protocol)

get_cached_value(protocol) == DictGet(state_cache, Lower(protocol))

\* ----------------------------------------------------------------- actions

Init ==
    /\ state_cache = <<>>
    /\ last_update_times = <<>>
    /\ initial_load_complete = FALSE
    /\ initial_load_started = FALSE
    /\ data = <<>>
    /\ last_update_success = TRUE
    /\ clock = 0
    /\ advances = 0
    /\ queries = 0
    /\ failures = 0
    /\ last = Trace("init", "", {}, <<>>, {}, FALSE, FALSE, <<>>)
    /\ flow = FlowInit
    /\ hass = HassInit

\* The first scheduler tick: _async_update_data takes the initial-load branch.
InitialLoad ==
    /\ ~initial_load_complete
    /\ \E failing \in FaultSets(Positions) :
        UpdateData("initial_load", "", <<>>, failing, ReadingAt(advances))
    /\ UNCHANGED <<flow, hass, clock, advances, queries, failures>>

\* A later scheduler tick: _async_update_data takes the normal branch.
SteadyState ==
    /\ initial_load_complete
    /\ \E failing \in FaultSets(Positions) :
        UpdateData("normal_update", "", <<>>, failing, ReadingAt(advances))
    /\ UNCHANGED <<flow, hass, clock, advances, queries, failures>>

\* One call async_query_protocol(protocol_name) while the device answers
\* with `reading`, or fails at the transport when `fail` holds.
QueryProtocolStep(protocol_name, fail, reading) ==
    LET failing == IF fail THEN {GetProtocol(Upper(protocol_name))} ELSE {}
        r == QueryProtocolResult(protocol_name, failing, reading)
    IN  /\ fail => GetProtocol(Upper(protocol_name)) # "None"
        /\ state_cache' = r.cache
        /\ last_update_times' = r.times
        /\ data' = r.data
        /\ last' = [Trace("query_protocol", protocol_name, failing, r.queried,
                           r.results, r.raised, r.notified, <<>>)
                       EXCEPT !.reading = reading]
        /\ UNCHANGED <<flow, hass, initial_load_complete, initial_load_started,
                       last_update_success, clock, advances, failures>>

\* async_query_protocol(protocol_name), for a name of the set `names`.
QueryProtocolOf(names) ==
    /\ queries < MaxQueries
    /\ queries' = queries + 1
    /\ \E protocol_name \in names, fail \in BOOLEAN :
        QueryProtocolStep(protocol_name, fail, ReadingAt(advances))

\* The first update and the on-demand query while the device answers in any
\* of the shapes of ShapeReadings.
LoadShape ==
    /\ ~initial_load_complete
    /\ \E reading \in ShapeReadings : UpdateData("initial_load", "", <<>>, {}, reading)
    /\ UNCHANGED <<flow, hass, clock, advances, queries, failures>>

QueryShape ==
    /\ \E protocol_name \in ShapeNames, reading \in ShapeReadings :
        QueryProtocolStep(protocol_name, FALSE, reading)
    /\ UNCHANGED queries

QueryProtocol == QueryProtocolOf(QueryNames)

QueryProtocolAnyCase == QueryProtocolOf(AnyCaseNames)

\* async_query_protocol with the name of any member of the library enum.
QueryProtocolMember == QueryProtocolOf(MemberNames)

QueryShapeAnyCase ==
    /\ \E protocol_name \in ShapeCaseNames, reading \in ShapeReadings :
        QueryProtocolStep(protocol_name, FALSE, reading)
    /\ UNCHANGED queries

\* get_cached_value(protocol): the caller gets the value; nothing is written.
GetCachedValue ==
    /\ \E protocol \in ReadNames :
        last' = [Trace("get_cached_value", protocol, {}, <<>>, {}, FALSE, FALSE, <<>>)
                    EXCEPT !.returned = get_cached_value(protocol)]
    /\ UNCHANGED <<flow, hass, state_cache, last_update_times, initial_load_complete,
                   initial_load_started, data, last_update_success, clock, advances,
                   queries, failures>>

\* Variant: the results gathered before the exception are merged.
FailureCacheMerged(cache, all_results) == DictUpdate(cache, all_results)

\* An update in which an exception is raised outside the per-protocol try
\* blocks, after the loops have handled `stop` positions: the outer handler
\* logs it and returns self._state_cache.
FailureCache(cache, all_results) == cache

\* Variant: the outer handler raises the exception again.
OuterHandlerReraises == TRUE

\* Whether _async_update_data raises when its outer handler has caught an
\* exception: the handler returns the cache.
OuterHandlerRaises == FALSE

\* One run of _async_update_data that fails as a whole at position `stop`.
FailedUpdate(op, arg, sent, stop, failing, reading) ==
    LET acc == RunLoops(stop, failing, reading)
        cache == FailureCache(state_cache, acc.all_results)
    IN  /\ state_cache' = cache
        /\ last_update_times' = acc.times
        /\ initial_load_started' = TRUE
        /\ data' = cache
        /\ last_update_success' = UpdateSucceeded(OuterHandlerRaises)
        /\ last' = [Trace(op, arg, failing, acc.queried, {},
                           OuterHandlerRaises, TRUE, sent)
                       EXCEPT !.reading = reading, !.failed = TRUE]
        /\ UNCHANGED initial_load_complete

\* A command on protocol `protocol` with value `value`: the lookup of the
\* protocol, the conversion of the value when `coerce` holds (the entity's
\* async_set_value), the write, then the refresh the coordinator requests,
\* which runs _async_update_data up to position `stop` with the queries of
\* one of the sets of `faults` failing; `given` is what the caller of the
\* operation passed in, from which `value` was made.
CommandGiven(op, protocol, given, value, coerce, wfail, stop, faults) ==
    LET protocol_enum == GetProtocol(protocol)
        conv == IF coerce /\ Lower(protocol) \in integer_protocols
                THEN IntCoerce(value)
                ELSE [raises |-> FALSE, val |-> value]
    IN  IF protocol_enum = "None" \/ conv.raises
        THEN /\ ~wfail /\ stop = Positions
             /\ last' = [Trace(op, protocol, {}, <<>>, {}, TRUE, FALSE, <<>>)
                            EXCEPT !.value = given]
             /\ UNCHANGED <<flow, hass, state_cache, last_update_times,
                            initial_load_complete, initial_load_started, data,
                            last_update_success, clock, advances, queries, failures>>
        ELSE LET w == set_value(protocol_enum, conv.val, wfail)
                 sent == <<[protocol |-> protocol_enum, value |-> conv.val,
                            ok |-> w.wrote, given |-> given]>>
             IN  /\ \E failing \in faults :
                        IF stop = Positions
                        THEN UpdateData(op, protocol, sent, failing, ReadingAt(advances))
                        ELSE FailedUpdate(op, protocol, sent, stop, failing,
                                          ReadingAt(advances))
                 /\ UNCHANGED <<flow, hass, clock, advances, queries, failures>>

\* A command whose caller passes the value itself.
CommandWith(op, protocol, value, coerce, wfail, stop, faults) ==
    CommandGiven(op, protocol, value, value, coerce, wfail, stop, faults)

\* The same, with any of the queries of the refresh failing.
CommandStep(op, protocol, value, coerce, wfail, stop) ==
    CommandWith(op, protocol, value, coerce, wfail, stop, FaultSets(stop))

\* A command with its inputs drawn from the given sets; `cuts` are the
\* positions at which the refresh may fail as a whole.
CommandOf(op, names, values, coerce, cuts) ==
    \E protocol \in names, value \in values, wfail \in BOOLEAN :
        \E stop \in {Positions} \cup {c \in cuts : c < Positions} :
            CommandStep(op, protocol, value, coerce, wfail, stop)

\* async_send_command(protocol, value)
SendCommand == CommandOf("send_command", CommandNames, {CommandValue}, FALSE, {})

\* async_send_command with any name, and a refresh that may fail.
SendCommandAny ==
    CommandOf("send_command", AnyCommandNames, {CommandValue}, FALSE, RefreshCuts)

\* RoborockWasherApiEntity.async_set_value(value) of an entity.
SetValue == CommandOf("set_value", EntityProtocols, SetValues, TRUE, RefreshCuts)

\* Time passes between two operations.
TimePasses ==
    /\ advances < MaxAdvances
    /\ \E d \in Deltas : clock' = clock + d
    /\ advances' = advances + 1
    /\ last' = Trace("time", "", {}, <<>>, {}, FALSE, FALSE, <<>>)
    /\ UNCHANGED <<flow, hass, state_cache, last_update_times, initial_load_complete,
                   initial_load_started, data, last_update_success, queries,
                   failures>>

UnexpectedFailure ==
    /\ failures < MaxFailures
    /\ failures' = failures + 1
    /\ \E stop \in 0..(Positions - 1) : \E failing \in FaultSets(stop) :
        FailedUpdate("update_failed", "", <<>>, stop, failing, ReadingAt(advances))
    /\ UNCHANGED <<flow, hass, clock, advances, queries>>

\* ------------------------------------------------ the entities

\* An operation of an entity is between its write and what follows it.
Busy == last.op \in {"selecting", "turning_on", "turning_off", "pressing"}

\* The call async_query_protocol(protocol_name) that follows the write of an
\* entity operation, which ends as `final`; `swallow` holds when a handler
\* around the call keeps its exception from the caller.
FollowUpQuery(final, protocol_name, swallow) ==
    \E fail \in BOOLEAN :
        LET failing == IF fail THEN {GetProtocol(Upper(protocol_name))} ELSE {}
            r == QueryProtocolResult(protocol_name, failing, ReadingAt(advances))
        IN  /\ fail => failures < MaxFailures
            /\ failures' = IF fail THEN failures + 1 ELSE failures
            /\ state_cache' = r.cache
            /\ last_update_times' = r.times
            /\ data' = r.data
            /\ last' = [last EXCEPT !.op = final, !.followup = r.queried,
                                    !.failing = @ \cup failing,
                                    !.error = IF r.raised THEN "query" ELSE "",
                                    !.raised = r.raised /\ ~swallow]
            /\ UNCHANGED <<flow, hass, initial_load_complete, initial_load_started,
                           last_update_success, clock, advances, queries>>

\* An entity operation that ends, as `final`, without a query: it raises to
\* its caller when `raised` holds.
NoFollowUp(final, raised, error) ==
    /\ last' = [last EXCEPT !.op = final, !.raised = raised, !.error = error]
    /\ UNCHANGED <<flow, hass, state_cache, last_update_times, initial_load_complete,
                   initial_load_started, data, last_update_success, clock, advances,
                   queries, failures>>

\* RoborockWasherSelect.async_select_option up to the end of the base
\* class's async_set_value: the option is turned into a value and written; a
\* key without a branch is logged and nothing is written.
SelectOption ==
    /\ ~Busy
    /\ \E key \in SelectKeys, wfail \in BOOLEAN :
        \E option \in Offered(key) \cap SampleOptions :
            IF key \notin DOMAIN SelectEnum
            THEN /\ ~wfail
                 /\ last' = [Trace("select_option", SelectProtocol[key], {}, <<>>, {},
                                    FALSE, FALSE, <<>>) EXCEPT !.value = StrV(option)]
                 /\ UNCHANGED <<flow, hass, state_cache, last_update_times,
                                initial_load_complete, initial_load_started, data,
                                last_update_success, clock, advances, queries,
                                failures>>
            ELSE CommandGiven("selecting", SelectProtocol[key], StrV(option),
                              SelectValue(SelectEnum, key, option), TRUE, wfail,
                              Positions, {{}})

\* The rest of RoborockWasherSelect.async_set_value: the query of the
\* entity's protocol; its handler logs any exception and does not raise.
SelectFollowUp ==
    /\ last.op = "selecting"
    /\ IF last.raised THEN NoFollowUp("select_option", FALSE, "set_value")
       ELSE FollowUpQuery("select_option", Lower(last.arg), TRUE)

\* RoborockWasherSwitch.async_turn_on / async_turn_off up to the end of the
\* base class's async_set_value.
TurnOnOff ==
    /\ ~Busy
    /\ \E on \in BOOLEAN, wfail \in BOOLEAN :
        CommandWith(IF on THEN "turning_on" ELSE "turning_off", "SOUND_SET",
                    IF on THEN IntV(1) ELSE IntV(0), TRUE, wfail, Positions, {{}})

\* The rest of RoborockWasherSwitch.async_set_value and of async_turn_on /
\* async_turn_off: the query of sound_set; both handlers log any exception
\* and do not raise.
SwitchFollowUp ==
    /\ last.op \in {"turning_on", "turning_off"}
    /\ LET final == IF last.op = "turning_on" THEN "turn_on" ELSE "turn_off"
       IN  IF last.raised THEN NoFollowUp(final, FALSE, "set_value")
           ELSE FollowUpQuery(final, Lower(last.arg), TRUE)

\* RoborockWasherButton.async_press up to the end of async_set_value.
Press ==
    /\ ~Busy
    /\ \E protocol \in ButtonProtocols, wfail \in BOOLEAN :
        CommandWith("pressing", protocol, IntV(1), TRUE, wfail, Positions, {{}})

\* The rest of async_press: an exception of async_set_value is raised again;
\* otherwise state is queried, and an exception of that query is logged.
PressFollowUp ==
    /\ last.op = "pressing"
    /\ IF last.raised THEN NoFollowUp("press", TRUE, "set_value")
       ELSE FollowUpQuery("press", "state", TRUE)

\* Time passes while no entity operation is under way.
TimeIdle == ~Busy /\ TimePasses

\* The flow manager applies a result of the flow: the coordinator, which is
\* made only when an entry is set up, is not touched.
FlowReturns(f) ==
    /\ flow' = f
    /\ UNCHANGED <<hass, state_cache, last_update_times, initial_load_complete,
                   initial_load_started, data, last_update_success, clock, advances,
                   queries, failures, last>>

\* The flow is started: async_step_user() without input.
FlowStart ==
    /\ flow.result = ""
    /\ FlowReturns(async_step_user(flow, "", "ok"))

\* The user form is submitted: the flow manager calls the step of the form
\* it showed last, async_step_user(user_input).
SubmitUser ==
    /\ flow.result = "form" /\ flow.step_id = "user"
    /\ Len(flow.calls) < MaxSubmits
    /\ \E username \in Usernames, outcome \in RequestOutcomes :
        FlowReturns(async_step_user(flow, username, outcome))

\* The code form is submitted: async_step_code(user_input).
SubmitCode ==
    /\ flow.result = "form" /\ flow.step_id = "code"
    /\ Len(flow.calls) < MaxSubmits
    /\ \E code \in EntryCodes, outcome \in LoginOutcomes :
        FlowReturns(async_step_code(flow, code, outcome))

\* Home Assistant sets the entry up: async_setup_entry, the coordinators
\* being constructed and not yet run.
SetupEntry ==
    /\ hass.data = {}
    /\ \E outcome \in SetupOutcomes, devices \in SeqsUpTo(Devices, MaxDevices) :
        /\ outcome # "ok" => devices = <<>>
        /\ hass' = async_setup_entry(hass, "entry1", outcome, devices)
    /\ UNCHANGED <<state_cache, last_update_times, initial_load_complete,
                   initial_load_started, data, last_update_success, clock, advances,
                   queries, failures, last, flow>>

\* Home Assistant unloads the entry: async_unload_entry.
UnloadEntry ==
    /\ hass.data # {}
    /\ \E unload_ok \in BOOLEAN : hass' = async_unload_entry(hass, "entry1", unload_ok)
    /\ UNCHANGED <<state_cache, last_update_times, initial_load_complete,
                   initial_load_started, data, last_update_success, clock, advances,
                   queries, failures, last, flow>>

\* ------------------------------------------------ the scheduler, for ever

\* Half of the scheduler's interval (update_interval is the frequent
\* interval): the step in which time passes between two ticks.
HalfInterval == UPDATE_INTERVAL_FREQUENT \div 2

\* The refresh times after the origin of time has moved forward by the
\* scheduler's interval.  The code uses a refresh time only in the
\* difference current_time - last_update, compared with the two intervals,
\* so an age beyond the longer interval is kept at that interval.
Elapsed(times) ==
    [k \in DOMAIN times |->
        IF times[k] - UPDATE_INTERVAL_FREQUENT >= 0 - UPDATE_INTERVAL_INFREQUENT
        THEN times[k] - UPDATE_INTERVAL_FREQUENT
        ELSE 0 - UPDATE_INTERVAL_INFREQUENT]

\* The scheduler has a tick to run: the instant is a multiple of its
\* interval (clock 0 after the origin has moved) and the tick of this instant
\* has not run.
TickEnabled == clock = 0 /\ last.op \notin {"initial_load", "normal_update"}

\* The scheduler's tick, at the instants that are multiples of its interval
\* (clock 0 after the origin has moved), once per instant; every device
\* call returns an answer.
TickLive ==
    /\ TickEnabled
    /\ UpdateData(IF initial_load_complete THEN "normal_update" ELSE "initial_load",
                  "", <<>>, {}, ReadingAt(advances))
    /\ UNCHANGED <<flow, hass, clock, advances, queries, failures>>

\* Half an interval passes; from the instant of a tick only after the tick.
TimeLive ==
    /\ clock = 0 => last.op \in {"initial_load", "normal_update"}
    /\ IF clock = 0
       THEN clock' = HalfInterval /\ UNCHANGED last_update_times
       ELSE clock' = 0 /\ last_update_times' = Elapsed(last_update_times)
    /\ last' = Trace("time", "", {}, <<>>, {}, FALSE, FALSE, <<>>)
    /\ UNCHANGED <<flow, hass, state_cache, initial_load_complete,
                   initial_load_started, data, last_update_success, advances,
                   queries, failures>>

\* async_query_protocol between two ticks, any number of times.
QueryLive ==
    /\ clock = HalfInterval
    /\ \E protocol_name \in LiveNames :
        QueryProtocolStep(protocol_name, FALSE, ReadingAt(advances))
    /\ UNCHANGED queries

\* async_send_command between two ticks, any number of times.
CommandLive ==
    /\ clock = HalfInterval
    /\ CommandWith("send_command", "MODE", CommandValue, FALSE, FALSE, Positions, {{}})

\* An update is running: it is between two positions of its loops.
Loading == last.op = "loading"

\* The accumulator of the running update, or that of an update that starts.
LoadingAcc ==
    IF Loading
    THEN [all_results |-> last.pending, times |-> last_update_times,
          queried |-> last.queried]
    ELSE [all_results |-> <<>>, times |-> last_update_times, queried |-> <<>>]

\* One position of the loops of _async_update_data: the running update (or
\* one that starts) handles its next protocol and reaches the next await.
TickStep ==
    LET pos == IF Loading THEN last.pos ELSE 0
        before == IF Loading THEN last.failing ELSE {}
    IN  /\ pos < Positions
        /\ \E failing \in SUBSET Flaky :
            LET acc == StepLoops(pos + 1, LoadingAcc, before \cup failing,
                                 ReadingAt(advances))
                asked == Range(acc.queried) \ Range(LoadingAcc.queried)
            IN  /\ failing \subseteq asked
                /\ state_cache' = CacheDuring(state_cache, acc.all_results)
                /\ last_update_times' = acc.times
                /\ initial_load_started' = TRUE
                /\ last' = [Trace("loading", "", before \cup failing, acc.queried,
                                   DOMAIN acc.all_results, FALSE, FALSE, <<>>)
                               EXCEPT !.reading = ReadingAt(advances),
                                      !.pos = pos + 1, !.pending = acc.all_results,
                                      !.asked = asked]
        /\ UNCHANGED <<flow, hass, initial_load_complete, data, last_update_success, clock,
                       advances, queries, failures>>

\* The running update has left its loops: the cache is updated, the flag is
\* set and the data is returned.
TickFinish ==
    /\ Loading /\ last.pos = Positions
    /\ FinishUpdate(IF initial_load_complete THEN "normal_update" ELSE "initial_load",
                    "", <<>>, last.failing, last.reading, LoadingAcc)
    /\ UNCHANGED <<flow, hass, clock, advances, queries, failures>>

\* get_cached_value(protocol) called by an entity while an update is between
\* two of its queries.
ReadDuring ==
    /\ Loading /\ last.arg = ""
    /\ \E protocol \in DuringNames :
        last' = [last EXCEPT !.arg = protocol, !.returned = get_cached_value(protocol)]
    /\ UNCHANGED <<flow, hass, state_cache, last_update_times, initial_load_complete,
                   initial_load_started, data, last_update_success, clock, advances,
                   queries, failures>>

\* One position of the loops of an update that takes time: current_time is
\* the clock at the update's start, the device is read as it is now; newer
\* holds the keys async_query_protocol has refreshed since this update read
\* them.
OverlapStep ==
    LET pos == IF Loading THEN last.pos ELSE 0
        now == IF Loading THEN last.now ELSE clock
        newer == IF Loading THEN last.newer ELSE {}
    IN  /\ pos < Positions
        /\ LET acc == StepLoopsAt(pos + 1, LoadingAcc, {}, ReadingAt(advances), now)
               asked == Range(acc.queried) \ Range(LoadingAcc.queried)
           IN  /\ state_cache' = CacheDuring(state_cache, acc.all_results)
               /\ last_update_times' = acc.times
               /\ initial_load_started' = TRUE
               /\ last' = [Trace("loading", "", {}, acc.queried, DOMAIN acc.all_results,
                                  FALSE, FALSE, <<>>)
                              EXCEPT !.reading = ReadingAt(advances),
                                     !.pos = pos + 1, !.pending = acc.all_results,
                                     !.asked = asked, !.now = now,
                                     !.newer = newer \ {ProtocolStr(p) : p \in asked}]
        /\ UNCHANGED <<flow, hass, initial_load_complete, data, last_update_success,
                       clock, advances, queries, failures>>

\* async_query_protocol(protocol_name) runs to its end while an update is
\* waiting for one of its queries.
QueryDuring ==
    /\ Loading
    /\ queries < MaxQueries
    /\ queries' = queries + 1
    /\ \E protocol_name \in DuringNames :
        LET r == QueryProtocolResult(protocol_name, {}, ReadingAt(advances))
        IN  /\ state_cache' = r.cache
            /\ last_update_times' = r.times
            /\ data' = r.data
            /\ last' = [last EXCEPT
                            !.arg = protocol_name,
                            !.newer = IF protocol_name \in DOMAIN last.pending
                                      THEN @ \cup {protocol_name} ELSE @]
    /\ UNCHANGED <<flow, hass, initial_load_complete, initial_load_started,
                   last_update_success, clock, advances, failures>>

\* Time passes, also while an update is waiting for one of its queries.
TimeElapses ==
    /\ advances < MaxAdvances
    /\ \E d \in Deltas : clock' = clock + d
    /\ advances' = advances + 1
    /\ UNCHANGED <<flow, hass, state_cache, last_update_times, initial_load_complete,
                   initial_load_started, data, last_update_success, queries,
                   failures, last>>

\* Time passes between two updates.
TimeBetween == ~Loading /\ TimePasses

Next == InitialLoad \/ SteadyState \/ QueryProtocol \/ SendCommand \/ TimePasses

Spec == Init /\ [][Next]_vars

\* The same, with updates that fail as a whole.
NextFault == InitialLoad \/ SteadyState \/ TimePasses \/ UnexpectedFailure

SpecFault == Init /\ [][NextFault]_vars

\* On-demand queries with names in any letter case, and cache reads.
NextCase == InitialLoad \/ QueryProtocolAnyCase \/ GetCachedValue \/ TimePasses

SpecCase == Init /\ [][NextCase]_vars

\* The refresh paths while the shape of the device's answers varies.
NextShape == LoadShape \/ QueryShape

SpecShape == Init /\ [][NextShape]_vars

\* The commands: entity writes and coordinator commands, each followed by
\* its refresh (the first of which is the initial load).
NextSet == SetValue \/ SendCommandAny

SpecSet == Init /\ [][NextSet]_vars

\* The updates taken one query at a time, with cache reads in between.
NextStep == TickStep \/ TickFinish \/ ReadDuring \/ TimeBetween

SpecStep == Init /\ [][NextStep]_vars

\* The same, with on-demand queries under names in any letter case.
NextShapeCase == LoadShape \/ QueryShapeAnyCase

SpecShapeCase == Init /\ [][NextShapeCase]_vars

\* The operations of the select and button entities.
NextEntity == SelectOption \/ SelectFollowUp \/ Press \/ PressFollowUp

SpecEntity == Init /\ [][NextEntity]_vars

\* The operations of the switch entity, as time passes.
NextSwitch == TurnOnOff \/ SwitchFollowUp \/ TimeIdle

SpecSwitch == Init /\ [][NextSwitch]_vars

\* The config flow, from its start to the entry.
NextFlow == FlowStart \/ SubmitUser \/ SubmitCode
SpecFlow == Init /\ [][NextFlow]_vars

\* The entry is set up and unloaded.
NextSetup == SetupEntry \/ UnloadEntry
SpecSetup == Init /\ [][NextSetup]_vars

\* An update that takes time, with an on-demand query that overlaps it.
NextOverlap == OverlapStep \/ TickFinish \/ QueryDuring \/ TimeElapses
SpecOverlap == Init /\ [][NextOverlap]_vars

\* Updates, commands and on-demand queries for any member of the enum.
NextMember == InitialLoad \/ SteadyState \/ QueryProtocolMember \/ SendCommand
SpecMember == Init /\ [][NextMember]_vars

\* The scheduler running for ever: ticks keep occurring and time keeps
\* passing, with on-demand queries and commands in between.
NextLive == TickLive \/ TimeLive \/ QueryLive \/ CommandLive
\* Weak fairness of the tick, with its enabling condition written out: an
\* update can always run and always changes `last`, so the tick is enabled
\* exactly when TickEnabled holds.
TickFair == []<>(~TickEnabled) \/ []<><<TickLive>>_vars
SpecLive == Init /\ [][NextLive]_vars /\ TickFair /\ WF_vars(TimeLive)

\* ------------------------------------------------------------------ claims

\* The updates the scheduler runs.
Ticks == {"initial_load", "normal_update"}

\* The cache key under which an operation stores protocol p.
KeyOf(op, p) == IF op.op = "query_protocol" THEN op.arg ELSE Lower(p)

\* Key k has the same entry in d and in e.
SameEntry(d, e, k) ==
    /\ (k \in DOMAIN d) <=> (k \in DOMAIN e)
    /\ (k \in DOMAIN d /\ k \in DOMAIN e) => d[k] = e[k]

\* Protocol p was due, for a tier with this interval, before the step.
WasDue(p, interval) ==
    \/ Lower(p) \notin DOMAIN last_update_times
    \/ clock - last_update_times[Lower(p)] >= interval

\* The interval of the tier of a scheduled protocol.
TierInterval(p) ==
    IF p \in Range(frequent_protocols) THEN UPDATE_INTERVAL_FREQUENT
    ELSE UPDATE_INTERVAL_INFREQUENT

Scheduled == Range(frequent_protocols) \cup Range(infrequent_protocols)

\* C1: stale-but-present.  In an initial load, a normal update and an
\* on-demand query, a protocol whose device query failed at the transport
\* keeps its cache entry: the value and the time of its last refresh are the
\* same after the operation as before it.
C1_StaleButPresent ==
    [][ last'.op \in Ticks \cup {"query_protocol"} =>
          \A p \in last'.failing :
              /\ SameEntry(state_cache, state_cache', KeyOf(last', p))
              /\ SameEntry(last_update_times, last_update_times', KeyOf(last', p)) ]_vars

\* C2: after a normal update in which the query of a due protocol failed at
\* the transport, last_update_success is false and the cache still holds the
\* value from before the failure.
C2_FailingTickFlag ==
    [][ (last'.op = "normal_update" /\ last'.failing # {}) =>
          /\ ~last_update_success'
          /\ \A p \in last'.failing : SameEntry(state_cache, state_cache', Lower(p)) ]_vars

\* C3: once the initial load has completed, no update (scheduled or
\* requested after a command) queries a manual protocol.
C3_ManualNeverPolled ==
    [][ (initial_load_complete /\ last'.op \in {"normal_update", "send_command"}) =>
          Range(last'.queried) \cap Range(manual_protocols) = {} ]_vars

C3_Witness ==
    /\ last.op = "normal_update"
    /\ Len(last.queried) = Len(frequent_protocols) + Len(infrequent_protocols)

\* C4: the initial load queries every protocol of the three lists except
\* START, PAUSE and SHUTDOWN exactly once, in order, whichever queries fail,
\* and leaves initial_load_complete true.
C4_InitialLoadQueriesAll ==
    last.op = "initial_load" =>
        /\ last.queried = SelectSeq(all_protocols,
                              LAMBDA p : p \notin {"START", "PAUSE", "SHUTDOWN"})
        /\ initial_load_complete

C4_Witness ==
    /\ last.op = "initial_load"
    /\ last.failing = {"STATE", "ERROR", "SOUND_SET"}
    /\ initial_load_complete

C6_QueriedIffDue ==
    [][ last'.op = "normal_update" =>
          \A p \in Scheduled :
              (p \in Range(last'.queried)) <=> WasDue(p, TierInterval(p)) ]_vars

C6_Witness ==
    /\ last.op = "normal_update"
    /\ Range(last.queried) = Range(frequent_protocols)
    /\ clock - last_update_times["error"] = UPDATE_INTERVAL_FREQUENT

\* C7: an update that produces no results leaves every cached value and
\* every refresh time as they were.
C7_EmptyMergeNoOp ==
    [][ (last'.op \in Ticks /\ last'.results = {}) =>
          /\ state_cache' = state_cache
          /\ last_update_times' = last_update_times ]_vars

C7_Witness ==
    /\ last.op = "normal_update"
    /\ last.results = {}
    /\ DOMAIN state_cache # {}

\* C8: a normal update in which no protocol is due queries nothing and
\* returns the cache as it is; the result of an update is not empty when the
\* cache is not.
C8_NothingDueReturnsCache ==
    [][ last'.op \in Ticks =>
          /\ (last'.op = "normal_update" /\ \A p \in Scheduled : ~WasDue(p, TierInterval(p)))
                => (last'.queried = <<>> /\ data' = state_cache /\ state_cache' = state_cache)
          /\ DOMAIN state_cache' # {} => DOMAIN data' # {} ]_vars

C8_Witness ==
    /\ last.op = "normal_update"
    /\ last.queried = <<>>
    /\ DOMAIN data # {}
    /\ data = state_cache

\* C9: an update in which an unexpected exception is raised does not raise to
\* its caller; it returns the cache, whose contents are those from before
\* the update.
C9_FailureReturnsOldCache ==
    [][ last'.op = "update_failed" =>
          /\ ~last'.raised
          /\ data' = state_cache'
          /\ state_cache' = state_cache ]_vars

C9_Witness ==
    /\ last.op = "update_failed"
    /\ last.queried # <<>>
    /\ DOMAIN state_cache # {}

\* C10: in a normal update the failure of one due protocol's query stays with
\* that protocol: every due protocol is still queried, every other due
\* protocol gets the device's reading and the time of the update, and the
\* update does not raise.
C10_FailureContained ==
    [][ (last'.op = "normal_update" /\ last'.failing # {}) =>
          /\ ~last'.raised
          /\ \A p \in Scheduled :
                WasDue(p, TierInterval(p)) =>
                    /\ p \in Range(last'.queried)
                    /\ p \notin last'.failing =>
                          /\ Lower(p) \in DOMAIN state_cache'
                          /\ state_cache'[Lower(p)] = ReadingAt(advances).val
                          /\ last_update_times'[Lower(p)] = clock ]_vars

C10_Witness ==
    /\ last.op = "normal_update"
    /\ last.failing = {"STATE"}
    /\ Len(last.queried) = Len(frequent_protocols) + Len(infrequent_protocols)
    /\ state_cache["countdown"] = ReadingAt(advances).val
    /\ state_cache["error"] = ReadingAt(advances).val

\* The catalog's protocols.
Catalog == Range(all_protocols)

\* The value the cache is to hold under a key for the scalar v the device
\* answered with: the boolean for sound_set, v itself for the other keys.
Normalizable(key, v) == Lower(key) = "sound_set" => v \in TrueRaws \cup FalseRaws
Normalized(key, v) == IF Lower(key) = "sound_set" THEN BoolV(v \in TrueRaws) ELSE v

\* C11: async_query_protocol(name), for a name of the catalog, sends exactly
\* one query to the device, whatever the tier of the key and however long ago
\* it was refreshed; when the device answers (with a value the key's
\* normalization is defined on), the cache holds the normalized value under
\* that name, the time of its refresh is the current time and the listeners
\* have been notified when the call returns.
C11_QueryProtocolOneQuery ==
    [][ (last'.op = "query_protocol" /\ Upper(last'.arg) \in Catalog) =>
          /\ last'.queried = <<Upper(last'.arg)>>
          /\ (last'.failing = {} /\ Normalizable(last'.arg, ReadingAt(advances).val)) =>
                /\ ~last'.raised
                /\ last'.arg \in DOMAIN state_cache'
                /\ state_cache'[last'.arg] = Normalized(last'.arg, ReadingAt(advances).val)
                /\ last'.arg \in DOMAIN last_update_times'
                /\ last_update_times'[last'.arg] = clock
                /\ last'.notified ]_vars

\* A frequent key queried on demand at the very time the initial load
\* refreshed it.
C11_Witness ==
    /\ last.op = "query_protocol" /\ last.arg = "state"
    /\ initial_load_complete /\ clock = 0
    /\ last.queried = <<"STATE">> /\ last.failing = {} /\ last.notified
    /\ state_cache["state"] = IntV(1)

\* C12: get_cached_value(name) sends nothing to the device and writes nothing:
\* the cache, the timestamps, the load flags and the coordinator's data are
\* the same after it as before; it returns the value the cache holds under the
\* lower-cased name, and None when the cache has no such key.
C12_GetCachedValuePure ==
    [][ last'.op = "get_cached_value" =>
          /\ UNCHANGED <<state_cache, last_update_times, initial_load_complete,
                         initial_load_started, data, last_update_success>>
          /\ last'.queried = <<>> /\ last'.sent = <<>>
          /\ last'.returned = IF Lower(last'.arg) \in DOMAIN state_cache
                               THEN state_cache[Lower(last'.arg)]
                               ELSE NoneV ]_vars

\* A read with an upper-case name that returns the value cached under the
\* lower-case key.
C12_Witness ==
    /\ last.op = "get_cached_value" /\ last.arg = "STATE"
    /\ "state" \in DOMAIN state_cache
    /\ last.returned = state_cache["state"]
    /\ last.returned.ty = "int"

\* C19: every key of the cache and of the timestamp map is in lower case,
\* after any sequence of updates and of async_query_protocol calls whose names
\* are in any letter case (so that get_cached_value(name) finds what
\* async_query_protocol(name) stored).
C19_KeysLowerCase ==
    \A k \in DOMAIN state_cache \cup DOMAIN last_update_times : k = Lower(k)

\* The types of scalar values, and the shapes that wrap exactly one value.
ScalarTypes == {"int", "str", "bool"}
Unwrappable == {"scalar", "list1", "keyed"}

\* The operations that refresh keys from the device.
RefreshPaths == {"initial_load", "query_protocol"}

\* C13: for the boolean-coerced key sound_set, on the initial load and on
\* async_query_protocol("sound_set"), the raw values "1", 1 and true are cached
\* as the boolean true, and "0", 0 and false as the boolean false.
C13_BooleanCoercion ==
    (/\ last.op \in RefreshPaths
     /\ "SOUND_SET" \in Range(last.queried)
     /\ last.reading.shape \in Unwrappable) =>
        /\ "sound_set" \in DOMAIN state_cache
        /\ last.reading.val \in TrueRaws => state_cache["sound_set"] = BoolV(TRUE)
        /\ last.reading.val \in FalseRaws => state_cache["sound_set"] = BoolV(FALSE)

\* The string "0" received by an on-demand query of sound_set and cached as
\* false.
C13_Witness ==
    /\ last.op = "query_protocol" /\ last.arg = "sound_set"
    /\ last.reading = [shape |-> "scalar", val |-> StrV("0")]
    /\ state_cache["sound_set"] = BoolV(FALSE)

Commands == {"set_value", "send_command"}

\* The strings that denote an integer, by the integer they denote.
Numerals == <<"0", "1", "2">>
IsNumeral(t) == \E n \in 1..Len(Numerals) : Numerals[n] = t
NumeralValue(t) == (CHOOSE n \in 1..Len(Numerals) : Numerals[n] = t) - 1

\* The keys whose values an entity converts to integers.
IntegerKeys == {"sound_set", "start", "pause", "shutdown"}

\* The step is a command that failed before anything was sent or refreshed.
FailedBeforeWrite ==
    /\ last'.raised /\ last'.sent = <<>> /\ last'.queried = <<>> /\ ~last'.notified
    /\ UNCHANGED <<state_cache, last_update_times, initial_load_complete,
                   initial_load_started, data, last_update_success>>

\* C14: async_set_value of an entity on an integer-coerced key sends 1 or 0
\* for a boolean and the denoted integer for a numeric string; for a string
\* that denotes no integer it raises before anything is written to the device
\* and without requesting a refresh.
C14_IntegerCoercion ==
    [][ (last'.op = "set_value" /\ Lower(last'.arg) \in IntegerKeys) =>
          /\ last'.value.ty = "bool" =>
                /\ last'.sent # <<>>
                /\ last'.sent[1].value = IntV(IF last'.value.b THEN 1 ELSE 0)
          /\ (last'.value.ty = "str" /\ IsNumeral(last'.value.s)) =>
                /\ last'.sent # <<>>
                /\ last'.sent[1].value = IntV(NumeralValue(last'.value.s))
          /\ (last'.value.ty = "str" /\ ~IsNumeral(last'.value.s)) =>
                FailedBeforeWrite ]_vars

\* The switch entity given the string "abc": nothing sent, nothing refreshed.
C14_Witness ==
    /\ last.op = "set_value" /\ last.arg = "SOUND_SET"
    /\ last.value = StrV("abc")
    /\ last.raised /\ last.sent = <<>>

\* The step is an entity write with a string that denotes no integer on an
\* integer-coerced key.
InvalidValue ==
    /\ last'.op = "set_value" /\ Lower(last'.arg) \in IntegerKeys
    /\ last'.value.ty = "str" /\ ~IsNumeral(last'.value.s)

\* C15: a command (an entity's async_set_value or async_send_command) on a
\* key that is not in the catalog raises the unknown-protocol error with
\* nothing written to the device, no refresh requested and the cache as it
\* was; a command on a key of the catalog is resolved and written, on either
\* path.
C15_UnknownProtocol ==
    [][ last'.op \in Commands =>
          /\ Upper(last'.arg) \notin Catalog => FailedBeforeWrite
          /\ (Upper(last'.arg) \in Catalog /\ ~InvalidValue) =>
                (last'.sent # <<>> /\ last'.sent[1].protocol = Upper(last'.arg)) ]_vars

\* C16: when the write of a command fails at the transport, the command
\* raises to its caller.
C16_WriteFailureRaises ==
    (last.op \in Commands /\ last.sent # <<>> /\ ~last.sent[1].ok) => last.raised

\* C17: when the write of a command succeeded and the refresh that follows
\* fails (as a whole, or in the queries of some protocols), the command does
\* not raise: it completes.
C17_RefreshFailureNotEscalated ==
    (/\ last.op \in Commands
     /\ last.sent # <<>> /\ last.sent[1].ok
     /\ (last.failed \/ last.failing # {})) => ~last.raised

\* An entity write that reached the device, followed by a refresh that failed
\* as a whole after it had queried the first protocol.
C17_Witness ==
    /\ last.op = "set_value" /\ last.arg = "MODE"
    /\ last.sent # <<>> /\ last.sent[1].ok
    /\ last.failed /\ last.queried = <<"STATE">>
    /\ ~last.raised

\* C20: an update abandoned at a per-protocol boundary leaves the cache
\* consistent: every protocol the update queried and got an answer for has
\* the time of this update as its timestamp only if the cache holds, under its
\* key, the value the answer carried.
C20_AbandonedTickConsistent ==
    [][ last'.op = "update_failed" =>
          \A p \in Range(last'.queried) \ last'.failing :
              LET k == Lower(p)
                  v == ReadingAt(advances).val
              IN  (/\ Normalizable(k, v)
                   /\ k \in DOMAIN last_update_times'
                   /\ last_update_times'[k] = clock) =>
                      (k \in DOMAIN state_cache' /\ state_cache'[k] = Normalized(k, v)) ]_vars

\* C23: during the initial load, as soon as the query of a protocol has been
\* answered its value is in the cache and get_cached_value returns it, before
\* the query of the next protocol of the same update is sent.
C23_MergedDuringLoad ==
    (Loading /\ ~initial_load_complete) =>
        \A p \in Range(last.queried) \ last.failing :
            Normalizable(Lower(p), last.reading.val) =>
                /\ Lower(p) \in DOMAIN state_cache
                /\ state_cache[Lower(p)] = Normalized(Lower(p), last.reading.val)
                /\ last.arg = Lower(p) => last.returned = state_cache[Lower(p)]

\* The place of a protocol in the declaration order: the frequent, then the
\* infrequent, then the manual protocols.
Declared == <<"STATE", "WASHING_LEFT", "COUNTDOWN", "ERROR", "TIMES_AFTER_CLEAN",
              "DETERGENT_EMPTY", "START", "PAUSE", "SHUTDOWN", "MODE", "PROGRAM", "TEMP",
              "RINSE_TIMES", "SPIN_LEVEL", "DRYING_MODE", "DETERGENT_TYPE", "SOUND_SET">>
Place(p) == CHOOSE n \in 1..Len(Declared) : Declared[n] = p

\* The queries of q were sent in declaration order.
InDeclaredOrder(q) ==
    \A i, j \in 1..Len(q) : i < j => Place(q[i]) < Place(q[j])

\* C25: within one update the queries are sent one at a time, each after the
\* one before it has returned or failed, and in declaration order: the
\* initial load takes the frequent, then the infrequent, then the manual
\* protocols, and a normal update every due frequent protocol before any
\* infrequent one.
C25_OneAtATimeInOrder ==
    /\ Loading => Cardinality(last.asked) <= 1
    /\ (Loading \/ last.op \in Ticks) => InDeclaredOrder(last.queried)

\* A normal update that has queried a frequent and an infrequent protocol.
C25_Witness ==
    /\ last.op = "normal_update"
    /\ Len(last.queried) = 6
    /\ last.queried[1] = "STATE" /\ last.queried[4] = "ERROR"

\* C24: after async_send_command(key, value) has written to the device, a
\* refresh is requested and the written key is read again from the device:
\* the refresh queries it and its timestamp is the time of that refresh, for
\* every key that can be written, the manual ones included.
C24_WrittenKeyReread ==
    [][ (/\ last'.op = "send_command" /\ ~last'.raised
         /\ last'.sent # <<>> /\ last'.sent[1].ok) =>
            /\ last'.notified
            /\ last'.sent[1].protocol \in Range(last'.queried)
            /\ Lower(last'.arg) \in DOMAIN last_update_times'
            /\ last_update_times'[Lower(last'.arg)] = clock ]_vars

\* What the initial load would put into its results for protocol p when the
\* device answers with `reading`: a mapping with the protocol's key, or the
\* empty mapping when the initial load would skip p on a conversion error.
InitialLoadWouldCache(p, reading) ==
    QueryOne([all_results |-> <<>>, times |-> <<>>, queried |-> <<>>], p,
             InitialBooleanProtocols, {}, reading, clock).all_results

\* C26: async_query_protocol normalizes as the initial load does: for every
\* name it accepts and every raw answer, the value it stores is the value the
\* initial load would store for the same protocol and the same answer (and
\* it stores nothing when the initial load would store nothing).
C26_SameNormalization ==
    (last.op = "query_protocol" /\ last.queried # <<>>) =>
        LET p == last.queried[1]
            r == InitialLoadWouldCache(p, last.reading)
        IN  IF Lower(p) \in DOMAIN r
            THEN /\ ~last.raised
                 /\ last.arg \in DOMAIN state_cache
                 /\ state_cache[last.arg] = r[Lower(p)]
            ELSE last.raised

\* C27: the set of keys of the cache never shrinks: no update, on-demand
\* query or command, failing or not, removes an entry.
C27_CacheNeverShrinks ==
    [][ DOMAIN state_cache \subseteq DOMAIN state_cache' ]_vars

\* A normal update with a failed query that leaves every key of the initial
\* load in the cache.
C27_Witness ==
    /\ last.op = "normal_update" /\ last.failing # {}
    /\ Cardinality(DOMAIN state_cache) = Len(all_protocols) - Cardinality(SetValueOnly)

\* C28: async_query_protocol with a name that resolves to no protocol raises
\* to its caller; it sends no query, leaves the cache, the timestamps and the
\* data as they were and notifies no listener.
C28_UnknownNameRaises ==
    [][ (last'.op = "query_protocol" /\ Upper(last'.arg) \notin RoborockZeoProtocol) =>
          /\ last'.raised /\ last'.queried = <<>> /\ ~last'.notified
          /\ UNCHANGED <<state_cache, last_update_times, data>> ]_vars

\* The unknown name queried when the cache is filled.
C28_Witness ==
    /\ last.op = "query_protocol" /\ last.arg = "bogus"
    /\ last.raised /\ initial_load_complete /\ "state" \in DOMAIN state_cache

\* C21: for each of the seven select entities (mode, program, detergent_type,
\* temperature, spin_level, rinse_times, drying_mode), selecting one of the
\* options the entity offers sends a write for the entity's protocol to the
\* device.
C21_SelectWrites ==
    last.op = "select_option" =>
        (last.sent # <<>> /\ last.sent[1].protocol = last.arg)

\* The entity operations whose docstrings promise that errors are raised.
Promising == {"turn_on", "turn_off", "select_option"}

\* Setting the value failed in the operation `last`: the base class's
\* async_set_value or the query that follows raised, or the write or that
\* query failed at the transport.
SettingFailed ==
    \/ last.error # ""
    \/ (last.sent # <<>> /\ ~last.sent[1].ok)
    \/ last.failing \cap Range(last.followup) # {}

\* C22: when setting the value fails, the switch's turn_on / turn_off and the
\* select's select_option raise the error to their caller.
C22_EntityErrorsRaised ==
    (last.op \in Promising /\ SettingFailed) => last.raised

\* C29: a press of START, PAUSE or SHUTDOWN writes to the device first and
\* queries state exactly once after the write; a failure of that query does
\* not make the press fail; a failure of the write makes the press fail, with
\* no query of state.
C29_PressWriteThenState ==
    last.op = "press" =>
        IF last.sent # <<>> /\ last.sent[1].ok
        THEN last.followup = <<"STATE">> /\ ~last.raised
        ELSE last.followup = <<>> /\ last.raised

\* The error codes the two steps of the flow can show.
ErrorCodes ==
    {RequestCodeHandlers[i].code : i \in 1..Len(RequestCodeHandlers)}
        \cup {CodeLoginHandlers[i].code : i \in 1..Len(CodeLoginHandlers)}

\* Before the call at position n, a code request of the same client succeeded.
RequestSucceededBefore(n) ==
    \E i \in 1..(n - 1) :
        /\ flow.calls[i].call = "request_code"
        /\ flow.calls[i].client = flow.calls[n].client
        /\ flow.calls[i].outcome = "ok"

\* The flow is at the code step: its form is shown or a login was attempted.
AtCodeStep(n) ==
    IF n <= Len(flow.calls) THEN flow.calls[n].call = "code_login"
    ELSE flow.result = "form" /\ flow.step_id = "code"

\* C30: the config flow creates an entry only after a code request succeeded
\* and a later code login succeeded; a failure of either call shows the form
\* of its step again with an error code and creates no entry; the code step
\* is never reached without a successful code request.
C30_EntryAfterRequestAndLogin ==
    LET n == Len(flow.calls)
    IN  /\ \A e \in flow.entries :
            /\ n > 0 /\ flow.calls[n].call = "code_login" /\ flow.calls[n].outcome = "ok"
            /\ flow.calls[n].client = e.username
            /\ RequestSucceededBefore(n)
        /\ \A k \in 1..(n + 1) :
            AtCodeStep(k) =>
                \E i \in 1..(k - 1) :
                    /\ flow.calls[i].call = "request_code" /\ flow.calls[i].outcome = "ok"
                    /\ \A j \in (i + 1)..(k - 1) : flow.calls[j].call = "code_login"
        /\ (n > 0 /\ flow.calls[n].outcome # "ok") =>
            /\ flow.result = "form"
            /\ flow.step_id =
                   (IF flow.calls[n].call = "request_code" THEN "user" ELSE "code")
            /\ flow.errors \in ErrorCodes
            /\ flow.entries = {}

\* An entry was created by a flow in which a call had failed before.
C30_Witness ==
    /\ flow.entries # {}
    /\ \E i \in 1..Len(flow.calls) : flow.calls[i].outcome # "ok"

\* The duids of the discovered devices that expose zeo.
ZeoDuids ==
    {hass.discovered[i].duid :
        i \in {k \in 1..Len(hass.discovered) : HasZeo(hass.discovered[k])}}

\* The coordinators the last setup constructed for a duid.
ConstructedFor(duid) ==
    {k \in 1..Len(hass.constructed) : hass.constructed[k].device.duid = duid}

\* C31: a setup that succeeds constructs exactly one coordinator for each
\* distinct duid among the discovered devices that expose zeo, and none for
\* any other duid; the entry's coordinators are these.
C31_OneCoordinatorPerDevice ==
    hass.result = "True" =>
        /\ \A d \in ZeoDuids : Cardinality(ConstructedFor(d)) = 1
        /\ \A d \in Duids \ ZeoDuids : ConstructedFor(d) = {}
        /\ \A e \in hass.data :
            /\ DOMAIN e.coordinators = ZeoDuids
            /\ Len(e.devices) = Cardinality(ZeoDuids)

\* A setup met a duid twice with zeo and a device without zeo.
C31_Witness ==
    /\ hass.result = "True"
    /\ \E i, j \in 1..Len(hass.discovered) :
        /\ i < j
        /\ hass.discovered[i].duid = hass.discovered[j].duid
        /\ HasZeo(hass.discovered[i]) /\ HasZeo(hass.discovered[j])
    /\ \E i \in 1..Len(hass.discovered) : ~HasZeo(hass.discovered[i])

\* C32: no older device reading overwrites a newer one: when an update ends,
\* a key that async_query_protocol refreshed after the update had queried it
\* keeps the value of that later reading.
C32_NewerReadingKept ==
    [][(Loading /\ last'.op \in {"initial_load", "normal_update"}) =>
          \A k \in last.newer : state_cache'[k] = state_cache[k]]_vars

\* C33: the time of a key's last refresh never decreases, also when
\* async_query_protocol refreshes the key while an update is in progress.
C33_RefreshTimeMonotone ==
    [][\A k \in DOMAIN last_update_times :
          /\ k \in DOMAIN last_update_times'
          /\ last_update_times'[k] >= last_update_times[k]]_vars

\* The operation in `last` of a state was a pass of the initial load, whole
\* or abandoned, given the flag before it.
InitialPass(complete_before, l) ==
    ~complete_before /\ l.op \in {"initial_load", "update_failed"}

\* C34: the initial load runs at most once, also when the first update is
\* abandoned midway: a pass of the initial load that follows an earlier one
\* queries no key the earlier pass has queried.
C34_InitialLoadOnce ==
    [][(InitialPass(FALSE, last) /\ InitialPass(initial_load_complete, last')) =>
          Range(last.queried) \cap Range(last'.queried) = {}]_vars

\* C35: a scheduled key whose query failed at the transport during a tick
\* stays due: the failed attempt does not advance the time of its last
\* refresh, so a tick that starts right after would query it again.
C35_FailedKeyStaysDue ==
    [][last'.op \in Ticks =>
          \A p \in (last'.failing \cap Range(last'.queried)) \cap Scheduled :
              IsDue(last_update_times', Lower(p), clock', TierInterval(p))]_vars

\* The cache keys of the catalog's readable protocols.
ReadableKeys == {ProtocolStr(p) : p \in Catalog \ SetValueOnly}

\* C36: every key of the cache is the key of a protocol of the catalog
\* (frequent, infrequent or manual) that is not write-only (start, pause,
\* shutdown), after any sequence of updates, commands and on-demand queries.
C36_CacheKeysInCatalog == DOMAIN state_cache \subseteq ReadableKeys

\* The select entity of a protocol.
SelectKeyOf(protocol) == CHOOSE key \in SelectKeys : SelectProtocol[key] = protocol

\* C37: select round trip: selecting an option a select entity offers writes
\* the device value of that option, never a fallback default, so that
\* current_option gives the selected option once the cache holds the value
\* written.
C37_SelectRoundTrip ==
    last.op = "select_option" =>
        /\ last.sent # <<>>
        /\ current_option(SelectKeyOf(last.arg), Reported(last.sent[1].value))
               = last.value.s

\* C38: no starvation: while ticks keep occurring, every frequent and every
\* infrequent key is queried by a tick again and again, whatever commands
\* and on-demand queries come in between.
C38_TickQueriesAgain ==
    \A p \in Scheduled : []<>(last.op \in Ticks /\ p \in Range(last.queried))

\* C38 as it holds: every frequent and every infrequent key is queried
\* again and again, by a tick, by the refresh after a command or by an
\* on-demand query.
C38_QueriedAgain ==
    \A p \in Scheduled : []<>(p \in Range(last.queried))

\* A tick long after the first one queries the infrequent keys again.
C38_Witness ==
    /\ last.op = "normal_update"
    /\ Range(infrequent_protocols) \subseteq Range(last.queried)

====
